---- MODULE Spec2Model ----
(***************************************************************************)
(* Model of the Tacotron2 decoder (src/tacotron2/decoder.py) and of its    *)
(* location-sensitive attention (src/tacotron2/attention.py).              *)
(*                                                                         *)
(* One batch element is followed.  Tensors the control flow depends on     *)
(* carry their shape; the alignment vectors are numeric (exact rationals   *)
(* with the common denominator One); the outputs of the learned layers     *)
(* (LSTM cells, linear projections, prenet) are uninterpreted values that  *)
(* record the layer, the output width, the age of the recurrent state and  *)
(* the values the layer was applied to.                                    *)
(***************************************************************************)
EXTENDS Integers, Sequences, FiniteSets, TLC

(* ---------------------------- bounds ----------------------------------- *)
MaxSeq == 2          \* encoder lengths 1..MaxSeq
MaxTarget == 2       \* target lengths 0..MaxTarget
MaxDim == 2          \* LSTM widths 1..MaxDim
MaxSteps == 3        \* forward_step calls a direct caller makes per sequence
RatioSteps == 2      \* teacher_forcing_ratio and random.random() in units of 1/RatioSteps

(* ----------------------- construction defaults ------------------------- *)
num_mel_bins == 80
prenet_dim == 256
embedding_dim == 512
self_max_decoding_step == 1000
stop_threshold == 50          \* 0.5, in percent

Energies == {0, 1}            \* attention energies (multiples of ln 2)
StopLogits == {-1, 1}         \* stop logits the stop projection may emit

VARIABLES
    attn_lstm_dim,            \* self.attn_lstm_dim
    decoder_lstm_dim,         \* self.decoder_lstm_dim
    pc,                       \* position of the running call
    error,                    \* exception the call raised, "none" otherwise
    encoder_outputs,          \* [seq_length]
    inputs,                   \* the inputs argument / local of forward
    teacher_forcing_ratio,
    use_teacher_forcing,
    max_decoding_step,        \* local of forward
    di,                       \* loop index
    input_var,                \* local of forward (autoregressive loop)
    decoder_states,           \* dict returned by _init_decoder_states / forward_step
    mel_outputs, stop_outputs, alignments,
    output,                   \* value returned by forward
    calls,                    \* what each forward_step of the call was given and handed to its layers
    stale                     \* decoder_states an earlier call left behind

vars == <<attn_lstm_dim, decoder_lstm_dim, pc, error, encoder_outputs, inputs,
          teacher_forcing_ratio, use_teacher_forcing, max_decoding_step, di,
          input_var, decoder_states, mel_outputs, stop_outputs, alignments,
          output, calls, stale>>

config == <<attn_lstm_dim, decoder_lstm_dim>>

(* ---------------------------- arithmetic ------------------------------- *)
RECURSIVE Pow2(_)
Pow2(n) == IF n <= 0 THEN 1 ELSE 2 * Pow2(n - 1)

RECURSIVE SumSeq(_)
SumSeq(s) == IF Len(s) = 0 THEN 0 ELSE Head(s) + SumSeq(Tail(s))

SetMax(S) == CHOOSE x \in S : \A y \in S : y <= x

RECURSIVE Gcd(_, _)
Gcd(a, b) == IF b = 0 THEN a ELSE Gcd(b, a % b)

RECURSIVE LcmUpTo(_)
LcmUpTo(n) == IF n <= 1 THEN 1 ELSE (LcmUpTo(n - 1) * n) \div Gcd(LcmUpTo(n - 1), n)

\* The number that stands for 1.0: every softmax denominator divides it.
One == LcmUpTo(MaxSeq * Pow2(SetMax(Energies)))

ZeroVec(n) == [i \in 1..n |-> 0]
AddVec(a, b) == [i \in 1..Len(a) |-> a[i] + b[i]]

RECURSIVE SumVecs(_, _)
SumVecs(vs, n) == IF Len(vs) = 0 THEN ZeroVec(n) ELSE AddVec(Head(vs), SumVecs(Tail(vs), n))

(* ------------------------------ values --------------------------------- *)
\* An uninterpreted layer output: the layer, its width, the number of cell
\* applications since the zero state, the values and the weights it was applied to.
V(op, width, n, src, w) == [op |-> op, width |-> width, n |-> n, src |-> src, w |-> w]

Zeros(width) == V("zeros", width, 0, <<>>, <<>>)
IsZeros(v) == v.op = "zeros"

\* A frame tensor: axes "BTF" (batch, time, feature) or "BF" (batch, feature).
Frames(axes, fs) == [is_none |-> FALSE, axes |-> axes, frames |-> fs]
None == [is_none |-> TRUE, axes |-> "", frames |-> <<>>]

TargetFrame(t) == V("target", num_mel_bins, t, <<>>, <<>>)
Target(L) == Frames("BTF", [t \in 1..L |-> TargetFrame(t)])

NoStates == [none |-> TRUE]
NoOutput == [none |-> TRUE]

(* ------------------------- tacotron2.prenet ---------------------------- *)
\* PreNet transforms the last (feature) axis of every frame and keeps the others.
PreNet(x) ==
    Frames(x.axes, [i \in 1..Len(x.frames) |-> V("prenet", prenet_dim, 0, <<x.frames[i]>>, <<>>)])

(* ------------------------ torch tensor helpers ------------------------- *)
\* Tensor.squeeze(1): drops axis 1 when its size is 1.
Squeeze1(x) ==
    IF x.axes = "BTF" /\ Len(x.frames) = 1 THEN Frames("BF", x.frames)
    ELSE IF x.axes = "BF" /\ x.frames[1].width = 1 THEN Frames("B", x.frames)
    ELSE x

\* F.dropout: a random mask over x; the value keeps its width and age.
Dropout(x) == V("dropout", x.width, x.n, <<x>>, <<>>)

\* torch.sigmoid on a stop logit, in percent.
Sigmoid(x) == IF x < 0 THEN 27 ELSE IF x = 0 THEN 50 ELSE 73

\* nn.LSTMCell(input_size, hidden_size) applied to cat(src) and the state (h, c).
LSTMCell(name, input_size, hidden_size, src, h, c) ==
    IF src[1].width + src[2].width # input_size \/ h.width # hidden_size \/ c.width # hidden_size
    THEN [raised |-> TRUE, h |-> h, c |-> c]
    ELSE [raised |-> FALSE,
          h |-> V(name, hidden_size, h.n + 1, src, <<>>),
          c |-> V(name, hidden_size, c.n + 1, src, <<>>)]

(* ------------------- LocationSensitiveAttention ------------------------ *)
\* in_features of attention.query_proj, as Decoder.__init__ constructs it.
query_proj_in_features == decoder_lstm_dim

location_conv_kernel_size == 31

\* nn.Conv1d(kernel_size=k, padding=int((k - 1) / 2)): length of its output on n positions.
LocationConvLen(n) ==
    n + 2 * ((location_conv_kernel_size - 1) \div 2) - location_conv_kernel_size + 1

\* softmax taken over the batch axis instead: every entry of a single batch element is 1.0
SoftmaxOverBatch(e) == [i \in 1..Len(e) |-> One]

\* F.softmax(alignment, dim=-1): exp(e_i) / sum_j exp(e_j) over the input-length axis.
Softmax(e) ==
    LET w == [i \in 1..Len(e) |-> Pow2(e[i])]
    IN  [i \in 1..Len(e) |-> (One * w[i]) \div SumSeq(w)]

\* forward(query, value, last_alignment).  energies stands for what
\* align_proj(tanh(...)) yields, one energy per position of value.
attention_forward(query, value, last_alignment, energies) ==
    LET n == value.seq_length
        m == LocationConvLen(Len(last_alignment[1]))
        bad(e) == [raised |-> TRUE, error |-> e, alignment |-> <<>>,
                   context |-> Zeros(embedding_dim)]
    IN  IF m < 1 THEN bad("RuntimeError: location_conv")
        ELSE IF query.width # query_proj_in_features THEN bad("RuntimeError: query_proj")
        ELSE IF ~(m = n \/ m = 1 \/ n = 1) THEN bad("RuntimeError: broadcast")
        ELSE LET alignment == Softmax(energies)
             IN  [raised |-> FALSE,
                  error |-> "none",
                  alignment |-> alignment,
                  context |-> V("context", embedding_dim, 0, <<>>, alignment)]

(* ------------------------------ Decoder -------------------------------- *)
\* an initialiser that hands back the state dict of the previous sequence
init_decoder_states_reused(enc) ==
    IF "alignment_cum" \in DOMAIN decoder_states
          /\ Len(decoder_states.alignment_cum) = enc.seq_length
    THEN [lstm_outputs |-> decoder_states.lstm_outputs,
          lstm_hiddens |-> decoder_states.lstm_hiddens,
          alignment |-> decoder_states.alignment,
          alignment_cum |-> decoder_states.alignment_cum,
          context |-> decoder_states.context]
    ELSE [lstm_outputs |-> <<Zeros(attn_lstm_dim), Zeros(decoder_lstm_dim)>>,
          lstm_hiddens |-> <<Zeros(attn_lstm_dim), Zeros(decoder_lstm_dim)>>,
          alignment |-> ZeroVec(enc.seq_length),
          alignment_cum |-> ZeroVec(enc.seq_length),
          context |-> Zeros(embedding_dim)]

init_decoder_states(enc) ==
    [lstm_outputs |-> <<Zeros(attn_lstm_dim), Zeros(decoder_lstm_dim)>>,
     lstm_hiddens |-> <<Zeros(attn_lstm_dim), Zeros(decoder_lstm_dim)>>,
     alignment |-> ZeroVec(enc.seq_length),
     alignment_cum |-> ZeroVec(enc.seq_length),
     context |-> Zeros(embedding_dim)]

\* The five state entries of a dict that init or a step returned.
StatesOf(d) ==
    [lstm_outputs |-> d.lstm_outputs, lstm_hiddens |-> d.lstm_hiddens,
     alignment |-> d.alignment, alignment_cum |-> d.alignment_cum, context |-> d.context]

\* torch.cat((alignment.unsqueeze(1), alignment_cum.unsqueeze(1)), dim=1)
ConcatedAlignment(st) == <<st.alignment, st.alignment_cum>>

\* "alignment_cum = alignment" in place of the in-place addition
AccumulateOverwrite(cum, alignment) == alignment

\* alignment_cum += alignment
Accumulate(cum, alignment) == AddVec(cum, alignment)

\* the second layer fed the context of the previous step
SecondLayerInputOldContext(out0, st, att) == <<out0, st.context>>

\* input_var = torch.cat((lstm_outputs[0], context), dim=-1), after line 149 rebound context
SecondLayerInput(out0, st, att) == <<out0, att.context>>

NoCall == [input_var |-> None, attn_query |-> Zeros(0), attn_alignment |-> <<>>,
           attn_alignment_cum |-> <<>>]

\* forward_step.  st holds the five state arguments; energies and stop stand for
\* what the attention's energy projection and the stop projection compute.
\* Result: raised; dict, the returned dict; st, the state objects as the call
\* leaves them (the lists and alignment_cum are updated in place); call, what it
\* was given and what it handed to the attention module.
forward_step(x, enc, st, energies, stop) ==
    LET x1 == Squeeze1(x)
        fail(s, c, e) == [raised |-> TRUE, error |-> e, dict |-> NoStates, st |-> s, call |-> c]
        call0 == [NoCall EXCEPT !.input_var = x]
    IN
    IF x1.axes # "BF" THEN fail(st, call0, "RuntimeError: cat")                       \* torch.cat, line 143
    ELSE
    LET l0 == LSTMCell("lstm0", prenet_dim + embedding_dim, attn_lstm_dim,
                       <<x1.frames[1], st.context>>, st.lstm_outputs[1], st.lstm_hiddens[1])
    IN
    IF l0.raised THEN fail(st, call0, "RuntimeError: lstm")
    ELSE
    LET out0 == Dropout(l0.h)
        st1 == [st EXCEPT !.lstm_outputs[1] = out0, !.lstm_hiddens[1] = l0.c]
        concated == ConcatedAlignment(st)
        call1 == [call0 EXCEPT !.attn_query = out0,
                               !.attn_alignment = concated[1],
                               !.attn_alignment_cum = concated[2]]
        att == attention_forward(out0, enc, concated, energies)
    IN
    IF att.raised THEN fail(st1, call1, att.error)
    ELSE
    LET cum == Accumulate(st.alignment_cum, att.alignment)
        st2 == [st1 EXCEPT !.alignment_cum = cum]
        l1 == LSTMCell("lstm1", attn_lstm_dim + embedding_dim, decoder_lstm_dim,
                       SecondLayerInput(out0, st, att), st.lstm_outputs[2], st.lstm_hiddens[2])
    IN
    IF l1.raised THEN fail(st2, call1, "RuntimeError: lstm")
    ELSE
    LET out1 == Dropout(l1.h)
        st3 == [st2 EXCEPT !.lstm_outputs[2] = out1, !.lstm_hiddens[2] = l1.c]
        mel == V("mel", num_mel_bins, 0, <<l1.c, att.context>>, <<>>)
        stp == V("stop", 1, 0, <<l1.c, att.context>>, <<stop>>)
    IN
    [raised |-> FALSE,
     error |-> "none",
     dict |-> [mel_output |-> mel,
               stop_output |-> stp,
               alignment |-> att.alignment,
               alignment_cum |-> cum,
               context |-> att.context,
               lstm_outputs |-> st3.lstm_outputs,
               lstm_hiddens |-> st3.lstm_hiddens],
     st |-> st3,
     call |-> call1]

\* "input is None" on line 239 tests the Python builtin function input, not the
\* parameter inputs: it is never true.
builtin_input_is_None == FALSE

GoFrame == Zeros(num_mel_bins)

\* validate_args: raised with the exception, or the pair (inputs, max_decoding_step).
validate_args(enc, inp, tfr) ==
    LET raise(e) == [raised |-> TRUE, error |-> e, inputs |-> inp, max_decoding_step |-> 0]
    IN
    IF enc.is_none THEN raise("AssertionError")
    ELSE IF builtin_input_is_None
    THEN IF tfr > 0
         THEN raise("ValueError: Teacher forcing has to be disabled (set 0) when no inputs is provided.")
         ELSE [raised |-> FALSE, error |-> "none",
               inputs |-> Frames("BF", <<GoFrame>>),
               max_decoding_step |-> self_max_decoding_step]
    ELSE IF inp.is_none THEN raise("AttributeError: 'NoneType' object has no attribute 'view'")
    ELSE IF Len(inp.frames) = 0 THEN raise("RuntimeError: view")
    ELSE LET cat == Frames("BTF", <<GoFrame>> \o inp.frames)
         IN  [raised |-> FALSE, error |-> "none",
              inputs |-> cat,
              max_decoding_step |-> Len(cat.frames) - 1]

\* parse_decoder_outputs: torch.stack refuses an empty list.
parse_decoder_outputs(mel, stop, align) ==
    IF Len(mel) = 0 \/ Len(stop) = 0 \/ Len(align) = 0
    THEN [raised |-> TRUE, error |-> "RuntimeError: stack", output |-> NoOutput]
    ELSE [raised |-> FALSE, error |-> "none",
          output |-> [mel_outputs |-> mel, stop_outputs |-> stop, alignments |-> align]]

\* the draw compared with "<=" instead of "<"
UseTeacherForcingInclusive(r, tfr) == r <= tfr

\* True if random.random() < teacher_forcing_ratio else False
UseTeacherForcing(r, tfr) == r < tfr

(* ------------------------------ inputs --------------------------------- *)
Enc(n) == [is_none |-> FALSE, seq_length |-> n]
EncNone == [is_none |-> TRUE, seq_length |-> 0]

EncoderOutputs == {EncNone} \cup {Enc(n) : n \in 1..MaxSeq}
Targets == {None} \cup {Target(L) : L \in 0..MaxTarget}
Ratios == 0..RatioSteps                 \* teacher_forcing_ratio in [0, 1]
Draws == 0..(RatioSteps - 1)            \* random.random() in [0, 1)
EnergyVectors(enc) == [1..enc.seq_length -> Energies]

CallEntry(c, mode) ==
    [mode |-> mode, input_var |-> c.input_var, attn_query |-> c.attn_query,
     attn_alignment |-> c.attn_alignment, attn_alignment_cum |-> c.attn_alignment_cum]

\* The caller's state objects after a forward_step that raised: the dict is the
\* old one, the lists and alignment_cum it refers to were updated in place.
InPlace(d, st) ==
    [d EXCEPT !.lstm_outputs = st.lstm_outputs,
              !.lstm_hiddens = st.lstm_hiddens,
              !.alignment_cum = st.alignment_cum]

(* ------------------------------- Init ---------------------------------- *)
Init ==
    /\ attn_lstm_dim \in 1..MaxDim
    /\ decoder_lstm_dim \in 1..MaxDim
    /\ pc = "idle"
    /\ error = "none"
    /\ encoder_outputs = EncNone
    /\ inputs = None
    /\ teacher_forcing_ratio = 0
    /\ use_teacher_forcing = FALSE
    /\ max_decoding_step = 0
    /\ di = 0
    /\ input_var = None
    /\ decoder_states = NoStates
    /\ mel_outputs = <<>>
    /\ stop_outputs = <<>>
    /\ alignments = <<>>
    /\ output = NoOutput
    /\ calls = <<>>
    /\ stale = NoStates

(* --------------------------- Decoder.forward --------------------------- *)
Raise(e) == pc' = "raised" /\ error' = e /\ output' = NoOutput

\* line 227: return self.parse_decoder_outputs(mel_outputs, stop_outputs, alignments)
Return(mel, stop, align) ==
    LET p == parse_decoder_outputs(mel, stop, align)
    IN  /\ pc' = IF p.raised THEN "raised" ELSE "returned"
        /\ error' = p.error
        /\ output' = p.output

\* lines 178-179: a call starts; the lists are created and the mode is drawn.
ForwardBegin(enc, inp, tfr, r) ==
    /\ pc \in {"idle", "returned", "raised"}
    /\ pc' = "begun"
    /\ error' = "none"
    /\ encoder_outputs' = enc
    /\ inputs' = inp
    /\ teacher_forcing_ratio' = tfr
    /\ mel_outputs' = <<>>
    /\ stop_outputs' = <<>>
    /\ alignments' = <<>>
    /\ use_teacher_forcing' = UseTeacherForcing(r, tfr)
    /\ max_decoding_step' = 0
    /\ di' = 0
    /\ input_var' = None
    /\ output' = NoOutput
    /\ calls' = <<>>
    /\ stale' = NoStates
    /\ UNCHANGED <<config, decoder_states>>

\* line 181
ValidateArgs ==
    /\ pc = "begun"
    /\ LET v == validate_args(encoder_outputs, inputs, teacher_forcing_ratio)
       IN  IF v.raised
           THEN Raise(v.error) /\ UNCHANGED <<inputs, max_decoding_step>>
           ELSE /\ pc' = "validated"
                /\ inputs' = v.inputs
                /\ max_decoding_step' = v.max_decoding_step
                /\ UNCHANGED <<error, output>>
    /\ UNCHANGED <<config, encoder_outputs, teacher_forcing_ratio, use_teacher_forcing, di,
                   input_var, decoder_states, mel_outputs, stop_outputs, alignments,
                   calls, stale>>

\* line 182
InitDecoderStates ==
    /\ pc = "validated"
    /\ pc' = "initialised"
    /\ decoder_states' = init_decoder_states(encoder_outputs)
    /\ stale' = decoder_states
    /\ UNCHANGED <<config, error, encoder_outputs, inputs, teacher_forcing_ratio,
                   use_teacher_forcing, max_decoding_step, di, input_var, mel_outputs,
                   stop_outputs, alignments, output, calls>>

\* lines 184-185, and line 227 when the loop has nothing to run
EnterTeacherForced ==
    /\ pc = "initialised"
    /\ use_teacher_forcing
    /\ inputs' = PreNet(inputs)
    /\ IF max_decoding_step = 0
       THEN Return(mel_outputs, stop_outputs, alignments)
       ELSE pc' = "loop" /\ UNCHANGED <<error, output>>
    /\ UNCHANGED <<config, encoder_outputs, teacher_forcing_ratio, use_teacher_forcing,
                   max_decoding_step, di, input_var, decoder_states, mel_outputs,
                   stop_outputs, alignments, calls, stale>>

\* lines 203-204, and line 227 when the loop has nothing to run
EnterAutoregressive ==
    /\ pc = "initialised"
    /\ ~use_teacher_forcing
    /\ input_var' = inputs
    /\ IF max_decoding_step = 0
       THEN Return(mel_outputs, stop_outputs, alignments)
       ELSE pc' = "loop" /\ UNCHANGED <<error, output>>
    /\ UNCHANGED <<config, encoder_outputs, inputs, teacher_forcing_ratio,
                   use_teacher_forcing, max_decoding_step, di, decoder_states,
                   mel_outputs, stop_outputs, alignments, calls, stale>>

\* lines 187-201: one iteration of the teacher-forced loop (and line 227 after the last)
TeacherForcedStep(energies, stop) ==
    /\ pc = "loop"
    /\ use_teacher_forcing
    /\ di < max_decoding_step
    /\ IF inputs.axes # "BTF"
       THEN /\ Raise("IndexError")
            /\ UNCHANGED <<decoder_states, mel_outputs, stop_outputs, alignments, di, calls>>
       ELSE
       LET x == Frames("BTF", <<inputs.frames[di + 1]>>)
           r == forward_step(x, encoder_outputs, StatesOf(decoder_states), energies, stop)
       IN  /\ calls' = Append(calls, CallEntry(r.call, "teacher_forced"))
           /\ IF r.raised
              THEN /\ Raise(r.error)
                   /\ decoder_states' = InPlace(decoder_states, r.st)
                   /\ UNCHANGED <<mel_outputs, stop_outputs, alignments, di>>
              ELSE /\ decoder_states' = r.dict
                   /\ IF "mel_outputs" \notin DOMAIN r.dict
                      THEN /\ Raise("KeyError: 'mel_outputs'")
                           /\ UNCHANGED <<mel_outputs, stop_outputs, alignments, di>>
                      ELSE /\ mel_outputs' = Append(mel_outputs, r.dict["mel_outputs"])
                           /\ stop_outputs' = Append(stop_outputs, r.dict["stop_output"])
                           /\ alignments' = Append(alignments, r.dict["alignment"])
                           /\ di' = di + 1
                           /\ IF di + 1 = max_decoding_step
                              THEN Return(mel_outputs', stop_outputs', alignments')
                              ELSE UNCHANGED <<pc, error, output>>
    /\ UNCHANGED <<config, encoder_outputs, inputs, teacher_forcing_ratio,
                   use_teacher_forcing, max_decoding_step, input_var, stale>>

\* lines 206-225: one iteration of the autoregressive loop (and line 227 after the last)
AutoregressiveStep(energies, stop) ==
    /\ pc = "loop"
    /\ ~use_teacher_forcing
    /\ di < max_decoding_step
    /\ LET x == PreNet(input_var)
           r == forward_step(x, encoder_outputs, StatesOf(decoder_states), energies, stop)
       IN  /\ calls' = Append(calls, CallEntry(r.call, "autoregressive"))
           /\ IF r.raised
              THEN /\ Raise(r.error)
                   /\ decoder_states' = InPlace(decoder_states, r.st)
                   /\ UNCHANGED <<mel_outputs, stop_outputs, alignments, di, input_var>>
              ELSE /\ decoder_states' = r.dict
                   /\ mel_outputs' = Append(mel_outputs, r.dict["mel_output"])
                   /\ stop_outputs' = Append(stop_outputs, r.dict["stop_output"])
                   /\ alignments' = Append(alignments, r.dict["alignment"])
                   /\ di' = di + 1
                   /\ IF Sigmoid(r.dict["stop_output"].w[1]) > stop_threshold
                      THEN /\ Return(mel_outputs', stop_outputs', alignments')
                           /\ UNCHANGED input_var
                      ELSE /\ input_var' = Frames("BF", <<r.dict["mel_output"]>>)
                           /\ IF di + 1 = max_decoding_step
                              THEN Return(mel_outputs', stop_outputs', alignments')
                              ELSE UNCHANGED <<pc, error, output>>
    /\ UNCHANGED <<config, encoder_outputs, inputs, teacher_forcing_ratio,
                   use_teacher_forcing, max_decoding_step, stale>>

Next ==
    \/ \E enc \in EncoderOutputs, inp \in Targets, tfr \in Ratios, r \in Draws :
          ForwardBegin(enc, inp, tfr, r)
    \/ ValidateArgs
    \/ InitDecoderStates
    \/ EnterTeacherForced
    \/ EnterAutoregressive
    \/ \E e \in EnergyVectors(encoder_outputs), s \in StopLogits : TeacherForcedStep(e, s)
    \/ \E e \in EnergyVectors(encoder_outputs), s \in StopLogits : AutoregressiveStep(e, s)

Spec == Init /\ [][Next]_vars

(* ------------- a caller that drives forward_step directly -------------- *)
\* The frame the loop of lines 187-188 feeds at index i: inputs[:, i, :].unsqueeze(1)
\* of the prenet of the go frame followed by the target frames.
StepFrame(i) ==
    LET seq == PreNet(Frames("BTF", <<GoFrame>> \o [t \in 1..MaxSteps |-> TargetFrame(t)]))
    IN  Frames("BTF", <<seq.frames[i + 1]>>)

\* decoder_states = self._init_decoder_states(encoder_outputs), for a new sequence
StepInit(enc) ==
    /\ pc \in {"idle", "stepping", "raised"}
    /\ pc' = "stepping"
    /\ error' = "none"
    /\ encoder_outputs' = enc
    /\ decoder_states' = init_decoder_states(enc)
    /\ mel_outputs' = <<>>
    /\ stop_outputs' = <<>>
    /\ alignments' = <<>>
    /\ calls' = <<>>
    /\ di' = 0
    /\ UNCHANGED <<config, inputs, teacher_forcing_ratio, use_teacher_forcing,
                   max_decoding_step, input_var, output, stale>>

\* decoder_states = self.forward_step(...), the results collected as lines 218-220 do
Step(energies, stop) ==
    /\ pc = "stepping"
    /\ di < MaxSteps
    /\ LET r == forward_step(StepFrame(di), encoder_outputs, StatesOf(decoder_states),
                             energies, stop)
       IN  /\ calls' = Append(calls, CallEntry(r.call, "step"))
           /\ IF r.raised
              THEN /\ pc' = "raised"
                   /\ error' = r.error
                   /\ decoder_states' = InPlace(decoder_states, r.st)
                   /\ UNCHANGED <<mel_outputs, stop_outputs, alignments, di>>
              ELSE /\ decoder_states' = r.dict
                   /\ mel_outputs' = Append(mel_outputs, r.dict["mel_output"])
                   /\ stop_outputs' = Append(stop_outputs, r.dict["stop_output"])
                   /\ alignments' = Append(alignments, r.dict["alignment"])
                   /\ di' = di + 1
                   /\ UNCHANGED <<pc, error>>
    /\ UNCHANGED <<config, encoder_outputs, inputs, teacher_forcing_ratio,
                   use_teacher_forcing, max_decoding_step, input_var, output, stale>>

StepNext ==
    \/ \E n \in 1..MaxSeq : StepInit(Enc(n))
    \/ \E e \in EnergyVectors(encoder_outputs), s \in StopLogits : Step(e, s)

StepSpec == Init /\ [][StepNext]_vars

(* ------------------------------ claims --------------------------------- *)
CallOver == pc \in {"returned", "raised"}
ValueErrorMessage == "ValueError: Teacher forcing has to be disabled (set 0) when no inputs is provided."
IsProbabilityVector(a) == (\A i \in 1..Len(a) : a[i] >= 0) /\ SumSeq(a) = One

\* C1: a call with no target tensor and teacher_forcing_ratio > 0 ends with the
\* documented ValueError, raised before the decoder state is initialised and
\* before any forward_step runs.
C1_NoTargetRaisesValueError ==
    (CallOver /\ ~encoder_outputs.is_none /\ inputs.is_none /\ teacher_forcing_ratio > 0)
        => (error = ValueErrorMessage /\ calls = <<>>)

\* C2: a teacher-forced call with a target of length L that entered its loop runs
\* all L iterations and returns L frames, L stop logits and L alignments.
C2_TeacherForcedReturnsAllFrames ==
    (CallOver /\ use_teacher_forcing /\ calls # <<>> /\ attn_lstm_dim = decoder_lstm_dim)
        => /\ pc = "returned"
           /\ di = max_decoding_step
           /\ Len(output.mel_outputs) = max_decoding_step
           /\ Len(output.stop_outputs) = max_decoding_step
           /\ Len(output.alignments) = max_decoding_step

\* C3: a call with no targets and teacher_forcing_ratio = 0 runs the
\* autoregressive loop and returns after at most max_decoding_step iterations,
\* fewer only if the last step's stop probability exceeded the threshold.
C3_InferenceRunsAutoregressiveLoop ==
    (CallOver /\ ~encoder_outputs.is_none /\ inputs.is_none /\ teacher_forcing_ratio = 0)
        => /\ pc = "returned"
           /\ Len(calls) >= 1
           /\ Len(calls) <= self_max_decoding_step
           /\ \A i \in 1..Len(calls) : calls[i].mode = "autoregressive"
           /\ (Len(calls) < self_max_decoding_step
                 <=> Sigmoid(stop_outputs[Len(stop_outputs)].w[1]) > stop_threshold)

\* C4: after N consecutive forward_step calls from the zero state the cumulative
\* alignment is the elementwise sum of the N alignments the steps returned, and
\* it never decreased at any input position from one step to the next.
C4_CumulativeAlignmentIsSum ==
    pc = "stepping" =>
        /\ Len(alignments) = di
        /\ decoder_states.alignment_cum = SumVecs(alignments, encoder_outputs.seq_length)
        /\ \A k \in 1..Len(calls) : \A i \in 1..encoder_outputs.seq_length :
              calls[k].attn_alignment_cum[i]
                 <= (IF k < Len(calls) THEN calls[k + 1].attn_alignment_cum[i]
                     ELSE decoder_states.alignment_cum[i])

C4_Witness ==
    /\ pc = "stepping"
    /\ Len(alignments) >= 2
    /\ alignments[1] # alignments[2]
    /\ decoder_states.alignment_cum = AddVec(alignments[1], alignments[2])

\* C5: the mode of a call is fixed by its one draw: every step of the call runs
\* in that mode, ratio 0 selects autoregressive and ratio 1 selects teacher forcing.
C5_ModeDrawnOncePerCall ==
    pc # "idle" =>
        /\ teacher_forcing_ratio = 0 => ~use_teacher_forcing
        /\ teacher_forcing_ratio = RatioSteps => use_teacher_forcing
        /\ \A i \in 1..Len(calls) :
              calls[i].mode = IF use_teacher_forcing THEN "teacher_forced" ELSE "autoregressive"

C5_Witness ==
    /\ Len(calls) = 1
    /\ teacher_forcing_ratio = 0
    /\ calls[1].mode = "autoregressive"
    /\ stale # NoStates

\* C6: every call starts its loop from all-zero recurrent state pairs for both
\* layers, zero alignment, zero cumulative alignment and zero context, whatever
\* an earlier call left behind.
C6_FreshZeroStatePerCall ==
    pc = "initialised" =>
        /\ DOMAIN decoder_states =
              {"lstm_outputs", "lstm_hiddens", "alignment", "alignment_cum", "context"}
        /\ \A l \in 1..2 :
              /\ IsZeros(decoder_states.lstm_outputs[l])
              /\ IsZeros(decoder_states.lstm_hiddens[l])
              /\ decoder_states.lstm_outputs[l].n = 0
              /\ decoder_states.lstm_hiddens[l].n = 0
        /\ decoder_states.alignment = ZeroVec(encoder_outputs.seq_length)
        /\ decoder_states.alignment_cum = ZeroVec(encoder_outputs.seq_length)
        /\ IsZeros(decoder_states.context)

C6_Witness ==
    /\ pc = "initialised"
    /\ "alignment_cum" \in DOMAIN stale
    /\ Len(stale.alignment_cum) = encoder_outputs.seq_length
    /\ stale.alignment_cum # ZeroVec(encoder_outputs.seq_length)
    /\ ~IsZeros(stale.lstm_outputs[2])
    /\ decoder_states.alignment_cum = ZeroVec(encoder_outputs.seq_length)

\* C7: every alignment the attention module returned has one non-negative entry
\* per input position and its entries sum to 1.
C7_AlignmentIsDistribution ==
    /\ \A k \in 1..Len(alignments) :
          /\ Len(alignments[k]) = encoder_outputs.seq_length
          /\ IsProbabilityVector(alignments[k])
    /\ ("mel_output" \in DOMAIN decoder_states) => IsProbabilityVector(decoder_states.alignment)

C7_Witness ==
    /\ Len(alignments) >= 1
    /\ encoder_outputs.seq_length >= 2
    /\ alignments[1][1] # alignments[1][2]
    /\ alignments[1][1] + alignments[1][2] = One

\* C8: in autoregressive mode the first forward_step is fed the single zero go
\* frame and each later one the frame the preceding step predicted.
C8_AutoregressiveFeedsPreviousFrame ==
    /\ (pc = "loop" /\ ~use_teacher_forcing /\ di = 0) => input_var.frames = <<GoFrame>>
    /\ \A i \in 2..Len(calls) :
          calls[i].mode = "autoregressive" =>
              /\ Len(calls[i].input_var.frames) = 1
              /\ calls[i].input_var.frames[1].src = <<mel_outputs[i - 1]>>

\* C9: the query forward_step hands to the attention module has the width the
\* attention's query projection was built for; no step fails on that width.
C9_QueryWidthMatches ==
    /\ error # "RuntimeError: query_proj"
    /\ \A i \in 1..Len(calls) :
          calls[i].attn_query.op # "zeros"
              => calls[i].attn_query.width = query_proj_in_features

\* C10: step k calls the attention module with the alignment of step k-1 and the
\* sum of the alignments of steps 1..k-1 (zero at step 1), accumulates the new
\* alignment afterwards, and feeds the second layer and the output projections
\* the new context.
C10_StepDataFlow ==
    /\ \A k \in 1..Len(calls) :
          calls[k].attn_query.op # "zeros" =>
              /\ calls[k].attn_alignment =
                    (IF k = 1 THEN ZeroVec(encoder_outputs.seq_length) ELSE alignments[k - 1])
              /\ calls[k].attn_alignment_cum =
                    SumVecs(SubSeq(alignments, 1, k - 1), encoder_outputs.seq_length)
    /\ (pc = "stepping" /\ di >= 1) =>
          /\ decoder_states.context.w = decoder_states.alignment
          /\ decoder_states.alignment = alignments[di]
          /\ decoder_states.alignment_cum =
                AddVec(calls[di].attn_alignment_cum, decoder_states.alignment)
          /\ decoder_states.lstm_outputs[2].src[1].src[2] = decoder_states.context
          /\ decoder_states.lstm_hiddens[2].src[2] = decoder_states.context
          /\ mel_outputs[di].src[2] = decoder_states.context
          /\ stop_outputs[di].src[2] = decoder_states.context

C10_Witness ==
    /\ pc = "stepping"
    /\ di = 2
    /\ calls[2].attn_alignment = alignments[1]
    /\ alignments[2] # alignments[1]
    /\ decoder_states.context.w = alignments[2]

====
